---- MODULE Spec2Model ----
(***************************************************************************)
(* Model of wgpu-bog: the quad batch builder (bog/src/test_renderer.rs:    *)
(* Renderer, Quad, Vertex) and the window event loop with its State object *)
(* (src/main.rs: main, State::resize, State::render).                      *)
(*                                                                         *)
(* f32 coordinates and colour channels are modelled as integers (tenths);  *)
(* the code only adds a position component and a size component, so the    *)
(* integer model keeps the structure of every computed vertex.             *)
(***************************************************************************)
EXTENDS Integers, Sequences, FiniteSets, TLC

VARIABLES
    renderer,           \* Renderer { vertices, indices }
    finished,           \* what Renderer::finish returned (consumes the Renderer)
    added,              \* history: every quad added so far, with its colour, in order
    call,               \* history: the last Renderer call and its arguments
    before,             \* history: the Renderer as it was before the last call
    state,              \* State { size, config, surface, num_indices }
    surface_configured, \* main's local flag
    control_flow,       \* "running" or "exit" (control_flow.exit() was called)
    panicked,           \* the process died in an unwrap
    redraw_requested,   \* window.request_redraw() is pending in the window system
    frame,              \* GPU/presentation commands issued by the last completed render
    last,               \* history: the last window event handled
    tick                \* history: flips on every handled RedrawRequested

vars == <<renderer, finished, added, call, before, state, surface_configured,
          control_flow, panicked, redraw_requested, frame, last, tick>>

rendererVars == <<renderer, finished, added, call, before>>
mainVars == <<state, surface_configured, control_flow, panicked,
              redraw_requested, frame, last, tick>>

----------------------------------------------------------------------------
(* Bounds *)

MaxQuads == 3
MaxSlice == 2
MaxDim == 2

(* Input values *)

Positions == {<<0, 0>>, <<1, 2>>}
Sizes == {<<5, 3>>, <<2, 2>>}
Colors == {<<5, 3, 7>>, <<10, 0, 0>>}
Quads == {[pos |-> p, size |-> s] : p \in Positions, s \in Sizes}
Dims == 0..MaxDim
PhysicalSizes == {[width |-> w, height |-> h] : w \in Dims, h \in Dims}

RECURSIVE SeqsUpTo(_, _)
SeqsUpTo(S, n) ==
    IF n = 0 THEN {<<>>}
    ELSE LET shorter == SeqsUpTo(S, n - 1)
         IN  shorter \cup {Append(s, x) : s \in {t \in shorter : Len(t) = n - 1}, x \in S}

IsPrefix(s, t) == Len(s) <= Len(t) /\ SubSeq(t, 1, Len(s)) = s

----------------------------------------------------------------------------
(* bog/src/test_renderer.rs: Quad, Vertex *)

num_indices == 6
num_vertices == 4
indices_u16 == <<0, 1, 2, 2, 1, 3>>
indices_u32 == <<0, 1, 2, 2, 1, 3>>

\* Quad::new
new_quad(pos, size) == [pos |-> pos, size |-> size]

\* Quad::push_with_color with the last two vertices exchanged
push_with_color_swapped(self, color, out) ==
    out \o << [pos |-> self.pos, color |-> color],
              [pos |-> <<self.pos[1] + self.size[1], self.pos[2]>>, color |-> color],
              [pos |-> <<self.pos[1] + self.size[1], self.pos[2] + self.size[2]>>, color |-> color],
              [pos |-> <<self.pos[1], self.pos[2] + self.size[2]>>, color |-> color] >>

\* Quad::push_with_color: out.extend([v0, v1, v2, v3])
push_with_color(self, color, out) ==
    out \o << [pos |-> self.pos, color |-> color],
              [pos |-> <<self.pos[1] + self.size[1], self.pos[2]>>, color |-> color],
              [pos |-> <<self.pos[1], self.pos[2] + self.size[2]>>, color |-> color],
              [pos |-> <<self.pos[1] + self.size[1], self.pos[2] + self.size[2]>>, color |-> color] >>

\* <[T]>::repeat(n): n copies of the slice, concatenated
RECURSIVE repeat(_, _)
repeat(s, n) == IF n = 0 THEN <<>> ELSE s \o repeat(s, n - 1)

----------------------------------------------------------------------------
(* bog/src/test_renderer.rs: Renderer *)

\* Renderer::start
start == [vertices |-> <<>>, indices |-> <<>>]

\* Renderer::add_quad that assigns the index pattern instead of extending with it
add_quad_assign(self, quad, color) ==
    [indices  |-> indices_u32,
     vertices |-> push_with_color(quad, color, self.vertices)]

\* Renderer::add_quad (reserve_exact changes capacity only)
add_quad(self, quad, color) ==
    [indices  |-> self.indices \o indices_u32,
     vertices |-> push_with_color(quad, color, self.vertices)]

\* the `for quad in quads` loop of Renderer::add_quads
RECURSIVE push_each(_, _, _)
push_each(quads, color, out) ==
    IF quads = <<>> THEN out
    ELSE push_each(Tail(quads), color, push_with_color(Head(quads), color, out))

\* the same loop walking the slice from its last quad to its first
RECURSIVE push_each_rev(_, _, _)
push_each_rev(quads, color, out) ==
    IF quads = <<>> THEN out
    ELSE push_each_rev(SubSeq(quads, 1, Len(quads) - 1), color,
                       push_with_color(quads[Len(quads)], color, out))

\* Renderer::add_quads that walks the slice backwards
add_quads_reversed(self, quads, color) ==
    [indices  |-> self.indices \o repeat(indices_u32, Len(quads)),
     vertices |-> push_each_rev(quads, color, self.vertices)]

\* Renderer::add_quads that extends the indices by one pattern, without repeat
add_quads_norepeat(self, quads, color) ==
    [indices  |-> self.indices \o indices_u32,
     vertices |-> push_each(quads, color, self.vertices)]

\* Renderer::add_quads
add_quads(self, quads, color) ==
    [indices  |-> self.indices \o repeat(indices_u32, Len(quads)),
     vertices |-> push_each(quads, color, self.vertices)]

\* Renderer::finish: the two buffers' contents and indices.len() as u32.
\* The cast keeps every length below 2^32, which is every length an integer
\* of this model can hold.
finish(self) ==
    [vertex_buffer |-> self.vertices,
     index_buffer  |-> self.indices,
     num_indices   |-> Len(self.indices)]

NotFinished == [vertex_buffer |-> <<>>, index_buffer |-> <<>>, num_indices |-> 0,
                done |-> FALSE]
Finished(r) == [vertex_buffer |-> r.vertex_buffer, index_buffer |-> r.index_buffer,
                num_indices |-> r.num_indices, done |-> TRUE]

NoCall == [op |-> "start", quads |-> <<>>, color |-> <<0, 0, 0>>]

RECURSIVE Tagged(_, _)
Tagged(quads, color) ==
    IF quads = <<>> THEN <<>>
    ELSE <<[quad |-> Head(quads), color |-> color]>> \o Tagged(Tail(quads), color)

----------------------------------------------------------------------------
(* src/main.rs: State *)

\* results of Surface::get_current_texture
SurfaceResults == {"Ok", "Timeout", "Outdated", "Lost", "OutOfMemory", "Other"}

Unconfigured == [configured |-> FALSE, width |-> 0, height |-> 0]

\* the quad and colour State::new hands to the Renderer
NewQuad == new_quad(<<1, 2>>, <<5, 3>>)
NewColor == <<5, 3, 7>>

\* State::new: config takes the window's inner size, the surface is not
\* configured yet, and the buffers come from start / add_quad / finish
new_state(inner_size) ==
    [size        |-> inner_size,
     config      |-> [width |-> inner_size.width, height |-> inner_size.height],
     surface     |-> Unconfigured,
     num_indices |-> finish(add_quad(start, NewQuad, NewColor)).num_indices]

\* State::resize that reconfigures when either dimension is positive
resize_either(self, new_size) ==
    IF new_size.width > 0 \/ new_size.height > 0
    THEN [self EXCEPT !.size = new_size,
                      !.config = [width |-> new_size.width, height |-> new_size.height],
                      !.surface = [configured |-> TRUE, width |-> new_size.width,
                                   height |-> new_size.height]]
    ELSE self

\* State::resize
resize(self, new_size) ==
    IF new_size.width > 0 /\ new_size.height > 0
    THEN [self EXCEPT !.size = new_size,
                      !.config = [width |-> new_size.width, height |-> new_size.height],
                      !.surface = [configured |-> TRUE, width |-> new_size.width,
                                   height |-> new_size.height]]
    ELSE self

ClearColor == <<2, 1, 3, 10>>

\* the commands of one State::render, with present() ahead of queue.submit()
render_commands_present_first(self) ==
    << [op |-> "begin_render_pass", load |-> "Clear", color |-> ClearColor],
       [op |-> "set_pipeline", pipeline |-> "render_pipeline"],
       [op |-> "set_vertex_buffer", slot |-> 0, buffer |-> "vertex_buffer"],
       [op |-> "set_index_buffer", buffer |-> "index_buffer", format |-> "Uint32"],
       [op |-> "draw_indexed", first |-> 0, end |-> self.num_indices,
        base_vertex |-> 0, instances |-> <<0, 1>>],
       [op |-> "present"],
       [op |-> "submit"] >>

\* the commands of one State::render, in program order
render_commands(self) ==
    << [op |-> "begin_render_pass", load |-> "Clear", color |-> ClearColor],
       [op |-> "set_pipeline", pipeline |-> "render_pipeline"],
       [op |-> "set_vertex_buffer", slot |-> 0, buffer |-> "vertex_buffer"],
       [op |-> "set_index_buffer", buffer |-> "index_buffer", format |-> "Uint32"],
       [op |-> "draw_indexed", first |-> 0, end |-> self.num_indices,
        base_vertex |-> 0, instances |-> <<0, 1>>],
       [op |-> "submit"],
       [op |-> "present"] >>

\* State::render.  get_current_texture().unwrap() panics on every failure, so
\* the function never returns an Err; a surface that was never configured
\* yields no texture.
render(self, acquired) ==
    IF acquired = "Ok" /\ self.surface.configured
    THEN [panic |-> FALSE, result |-> "Ok", commands |-> render_commands(self)]
    ELSE [panic |-> TRUE, result |-> "None", commands |-> <<>>]

NoEvent == [event |-> "None", new_size |-> [width |-> 0, height |-> 0],
            rendered |-> FALSE, acquired |-> "None", surface_before |-> Unconfigured,
            size_before |-> [width |-> 0, height |-> 0],
            config_before |-> [width |-> 0, height |-> 0]]

Event(name, st) == [NoEvent EXCEPT !.event = name, !.surface_before = st.surface,
                                   !.size_before = st.size, !.config_before = st.config]

----------------------------------------------------------------------------
(* The Renderer under arbitrary call sequences *)

InitRenderer ==
    /\ renderer = start
    /\ finished = NotFinished
    /\ added = <<>>
    /\ call = NoCall
    /\ before = start
    /\ state = new_state([width |-> 0, height |-> 0])
    /\ surface_configured = FALSE
    /\ control_flow = "running"
    /\ panicked = FALSE
    /\ redraw_requested = FALSE
    /\ frame = <<>>
    /\ last = NoEvent
    /\ tick = FALSE

CallAddQuad ==
    /\ ~finished.done
    /\ Len(added) + 1 <= MaxQuads
    /\ \E quad \in Quads, color \in Colors :
        /\ renderer' = add_quad(renderer, quad, color)
        /\ added' = Append(added, [quad |-> quad, color |-> color])
        /\ call' = [op |-> "add_quad", quads |-> <<quad>>, color |-> color]
    /\ before' = renderer
    /\ UNCHANGED <<finished, mainVars>>

CallAddQuads ==
    /\ ~finished.done
    /\ \E quads \in SeqsUpTo(Quads, MaxSlice), color \in Colors :
        /\ Len(added) + Len(quads) <= MaxQuads
        /\ renderer' = add_quads(renderer, quads, color)
        /\ added' = added \o Tagged(quads, color)
        /\ call' = [op |-> "add_quads", quads |-> quads, color |-> color]
    /\ before' = renderer
    /\ UNCHANGED <<finished, mainVars>>

CallFinish ==
    /\ ~finished.done
    /\ finished' = Finished(finish(renderer))
    /\ call' = [op |-> "finish", quads |-> <<>>, color |-> <<0, 0, 0>>]
    /\ before' = renderer
    /\ UNCHANGED <<renderer, added, mainVars>>

NextRenderer == CallAddQuad \/ CallAddQuads \/ CallFinish

SpecRenderer == InitRenderer /\ [][NextRenderer]_vars

----------------------------------------------------------------------------
(* src/main.rs: main, the event loop *)

InitMain ==
    /\ renderer = add_quad(start, NewQuad, NewColor)
    /\ finished = Finished(finish(renderer))
    /\ added = <<[quad |-> NewQuad, color |-> NewColor]>>
    /\ call = [op |-> "finish", quads |-> <<>>, color |-> <<0, 0, 0>>]
    /\ before = renderer
    /\ \E inner_size \in PhysicalSizes : state = new_state(inner_size)
    /\ surface_configured = FALSE
    /\ control_flow = "running"
    /\ panicked = FALSE
    /\ redraw_requested = FALSE
    /\ frame = <<>>
    /\ last = NoEvent
    /\ tick = FALSE

\* the closure is only called while the loop runs
Running == control_flow = "running" /\ ~panicked

\* WindowEvent::CloseRequested
CloseRequested ==
    /\ Running
    /\ control_flow' = "exit"
    /\ last' = Event("CloseRequested", state)
    /\ UNCHANGED <<rendererVars, state, surface_configured, panicked,
                   redraw_requested, frame, tick>>

\* WindowEvent::Resized(physical_size)
Resized ==
    /\ Running
    /\ \E physical_size \in PhysicalSizes :
        /\ surface_configured' = TRUE
        /\ state' = resize(state, physical_size)
        /\ last' = [Event("Resized", state) EXCEPT !.new_size = physical_size]
    /\ UNCHANGED <<rendererVars, control_flow, panicked, redraw_requested, frame, tick>>

\* WindowEvent::RedrawRequested
RedrawRequested ==
    /\ Running
    /\ redraw_requested' = TRUE
    /\ tick' = ~tick
    /\ IF ~surface_configured
       THEN /\ last' = Event("RedrawRequested", state)
            /\ UNCHANGED <<state, control_flow, panicked, frame>>
       ELSE \E acquired \in SurfaceResults :
              LET r == render(state, acquired) IN
              /\ last' = [Event("RedrawRequested", state) EXCEPT
                              !.rendered = TRUE, !.acquired = acquired]
              /\ panicked' = r.panic
              /\ frame' = IF r.result = "Ok" THEN r.commands ELSE frame
              /\ state' = IF r.result \in {"Lost", "Outdated"}
                          THEN resize(state, state.size)
                          ELSE state
              /\ control_flow' = IF r.result \in {"OutOfMemory", "Other"}
                                 THEN "exit"
                                 ELSE control_flow
    /\ UNCHANGED <<rendererVars, surface_configured>>

NextMain == CloseRequested \/ Resized \/ RedrawRequested

SpecMain == InitMain /\ [][NextMain]_vars

\* winit delivers a requested redraw while the loop is alive
FairSpecMain == SpecMain /\ WF_vars(RedrawRequested)

----------------------------------------------------------------------------
(* Properties of the Renderer (SpecRenderer) *)

\* the four vertices of the k-th quad added (k from 0), as a function on 0..3
QuadVertices(k) == [i \in 0..3 |-> renderer.vertices[4 * k + i + 1]]

\* the six indices of the k-th quad added (k from 0), as a function on 1..6
QuadIndices(k) == [j \in 1..6 |-> renderer.indices[6 * k + j]]

\* C1: after N quads were added, the six indices appended for the k-th quad
\* are the offsets [0,1,2,2,1,3] shifted by 4*k, so each of them refers to
\* one of that quad's own vertices at positions 4k..4k+3.
C1_IndicesShiftedByStride ==
    /\ Len(renderer.indices) = 6 * Len(added)
    /\ \A k \in 0..(Len(added) - 1) : \A j \in 1..6 :
        /\ QuadIndices(k)[j] = <<0, 1, 2, 2, 1, 3>>[j] + 4 * k
        /\ QuadIndices(k)[j] \in (4 * k)..(4 * k + 3)

\* C2: with N quads added so far the vertex array holds 4*N vertices and the
\* index array 6*N indices, and finish returns 6*N as its index count.
C2_FourVerticesSixIndicesPerQuad ==
    /\ Len(renderer.vertices) = 4 * Len(added)
    /\ Len(renderer.indices) = 6 * Len(added)
    /\ finished.done => finished.num_indices = 6 * Len(added)

C2_Witness ==
    /\ finished.done
    /\ Len(added) >= 2
    /\ finished.num_indices = 6 * Len(added)

\* C3: a quad at (x, y) of size (w, h) becomes the vertices (x, y), (x+w, y),
\* (x, y+h), (x+w, y+h) in this order, each with the given colour; the index
\* pattern makes two triangles that use all four corners and share exactly
\* the vertices 1 and 2, which are diagonally opposite corners.
C3_QuadExpansion ==
    /\ Len(renderer.vertices) = 4 * Len(added)
    /\ \A k \in 0..(Len(added) - 1) :
        LET v == QuadVertices(k)
            x == added[k + 1].quad.pos[1]
            y == added[k + 1].quad.pos[2]
            w == added[k + 1].quad.size[1]
            h == added[k + 1].quad.size[2]
            first  == {indices_u32[j] : j \in 1..3}
            second == {indices_u32[j] : j \in 4..6}
        IN  /\ v[0].pos = <<x, y>>
            /\ v[1].pos = <<x + w, y>>
            /\ v[2].pos = <<x, y + h>>
            /\ v[3].pos = <<x + w, y + h>>
            /\ \A i \in 0..3 : v[i].color = added[k + 1].color
            /\ first \cup second = 0..3
            /\ first \cap second = {1, 2}
            /\ v[1].pos[1] - v[2].pos[1] = w
            /\ v[2].pos[2] - v[1].pos[2] = h

C3_Witness ==
    /\ Len(added) >= 2
    /\ added[2].quad = [pos |-> <<1, 2>>, size |-> <<5, 3>>]
    /\ renderer.vertices[8].pos = <<6, 5>>

\* C4: a call of add_quad or add_quads leaves what was in the arrays where it
\* was and only adds at the end; add_quads of an empty slice changes nothing.
C4_AppendOnly ==
    call.op \in {"add_quad", "add_quads"} =>
        /\ IsPrefix(before.vertices, renderer.vertices)
        /\ IsPrefix(before.indices, renderer.indices)
        /\ call.quads = <<>> => renderer = before

C4_Witness ==
    /\ call.op = "add_quad"
    /\ Len(before.vertices) = 8
    /\ Len(renderer.vertices) = 12
    /\ SubSeq(renderer.indices, 1, 12) = before.indices

\* add_quad once for each quad of the slice, in order
RECURSIVE add_quad_each(_, _, _)
add_quad_each(self, quads, color) ==
    IF quads = <<>> THEN self
    ELSE add_quad_each(add_quad(self, Head(quads), color), Tail(quads), color)

\* C6: add_quads(quads, color) leaves the arrays as add_quad(q, color) for
\* each q of the slice in order does, from the same Renderer state.
C6_AddQuadsIsAddQuadEach ==
    call.op = "add_quads" => renderer = add_quad_each(before, call.quads, call.color)

C6_Witness ==
    /\ call.op = "add_quads"
    /\ Len(call.quads) = 2
    /\ call.quads[1] # call.quads[2]
    /\ before # start
    /\ renderer = add_quad(add_quad(before, call.quads[1], call.color),
                           call.quads[2], call.color)

----------------------------------------------------------------------------
(* Properties of the event loop (SpecMain, FairSpecMain) *)

Ops(commands) == [i \in 1..Len(commands) |-> commands[i].op]

\* C5: a render that completes begins a pass that clears the frame, binds the
\* pipeline, the vertex buffer and the index buffer, issues one indexed draw
\* over 0..num_indices (the count finish returned), submits, and presents once.
C5_RenderOrder ==
    (last.event = "RedrawRequested" /\ last.rendered /\ ~panicked) =>
        /\ Ops(frame) = <<"begin_render_pass", "set_pipeline", "set_vertex_buffer",
                          "set_index_buffer", "draw_indexed", "submit", "present">>
        /\ frame[1].load = "Clear"
        /\ frame[5].first = 0
        /\ frame[5].end = finished.num_indices
        /\ Cardinality({i \in 1..Len(frame) : frame[i].op = "draw_indexed"}) = 1
        /\ Cardinality({i \in 1..Len(frame) : frame[i].op = "present"}) = 1

C5_Witness ==
    /\ last.event = "RedrawRequested"
    /\ last.rendered
    /\ ~panicked
    /\ Len(frame) = 7
    /\ frame[5].end = 6

\* C7: config's width and height always equal the recorded size, and so does
\* the surface's configuration once it has one; resize with a zero dimension
\* leaves size, config and the surface as they were, and with two positive
\* dimensions sets all three to the new size.
C7_ConfigMatchesSize ==
    /\ state.config = [width |-> state.size.width, height |-> state.size.height]
    /\ state.surface.configured =>
         /\ state.surface.width = state.size.width
         /\ state.surface.height = state.size.height
    /\ last.event = "Resized" =>
         IF last.new_size.width = 0 \/ last.new_size.height = 0
         THEN /\ state.size = last.size_before
              /\ state.config = last.config_before
              /\ state.surface = last.surface_before
         ELSE /\ state.size = last.new_size
              /\ state.config = [width |-> last.new_size.width,
                                 height |-> last.new_size.height]
              /\ state.surface = [configured |-> TRUE,
                                  width |-> last.new_size.width,
                                  height |-> last.new_size.height]

C7_Witness ==
    /\ last.event = "Resized"
    /\ last.new_size = [width |-> 0, height |-> 2]
    /\ last.surface_before.configured
    /\ state.size = [width |-> 1, height |-> 2]
    /\ state.surface = [configured |-> TRUE, width |-> 1, height |-> 2]

\* C8: render is never invoked unless surface.configure has been called by
\* an earlier Resized event; a RedrawRequested before that does not render.
C8_RenderOnlyWhenConfigured ==
    (last.event = "RedrawRequested" /\ last.rendered) => last.surface_before.configured

\* C9: when get_current_texture fails with Lost or Outdated during a redraw,
\* the loop recovers by reconfiguring the surface at the current size; the
\* program neither exits nor panics and can process later redraws.
C9_LostOrOutdatedRecovered ==
    (/\ last.event = "RedrawRequested"
     /\ last.rendered
     /\ last.surface_before.configured
     /\ last.acquired \in {"Lost", "Outdated"}) =>
        /\ ~panicked
        /\ control_flow = "running"
        /\ state.surface = [configured |-> TRUE, width |-> state.size.width,
                            height |-> state.size.height]

\* C10: every handled RedrawRequested requests another redraw, whatever the
\* flag and the outcome of render, so unless the loop has been asked to exit
\* each redraw is eventually followed by another redraw.
C10_RedrawFollowedByRedraw ==
    /\ [](last.event = "RedrawRequested" => redraw_requested)
    /\ \A b \in BOOLEAN :
         (last.event = "RedrawRequested" /\ tick = b /\ control_flow # "exit")
             ~> (tick # b \/ control_flow = "exit")

====
